---------------------------- MODULE Spec2Model ----------------------------
(***************************************************************************)
(* Stock price service of ts-proto-effect-example.                         *)
(*                                                                         *)
(* The model covers the Effect-based nice-grpc service (src/src/server.ts, *)
(* second half), the plain nice-grpc service (src/unnamed/part_003) and    *)
(* the grpc-js callback service (src/unnamed/part_002, second half).       *)
(* SpecResolve is the specification of the unary calls, SpecStream the     *)
(* specification of the subscriptions.                                     *)
(*                                                                         *)
(* Numbers.  Math.random() is a draw r in Draws, standing for the real     *)
(* number r / DrawDen in [0, 1).  Arithmetic is exact rational arithmetic  *)
(* on integers: an unrounded price is carried as a numerator over          *)
(* 20 * DrawDen, an unrounded change as a numerator over DrawDen.  Rounded *)
(* results are integers: price and change in hundredths, changePercent in  *)
(* tenths.                                                                 *)
(***************************************************************************)
EXTENDS Integers, Sequences, FiniteSets, TLC

VARIABLES mockStocks, now, reply, sub, server, client

vars == <<mockStocks, now, reply, sub, server, client>>

(***************************************************************************)
(* Bounds of the model.                                                    *)
(***************************************************************************)
DrawDen == 10000
MaxBatch == 2
MaxTicks == 3
MaxSignals == 2
StartTime == 1
MaxPairTicks == 2
MaxUrl == 5
MaxText == 6

\* Program constants: the cadence in milliseconds and the volume range.
Cadence == 1000
VolumeRange == 1000000

\* The draws fed to Math.random(): the two ends of [0, 1), the middle, and
\* the two draws whose change is exactly -0.05 and +0.05.
Draws == {0, 4950, 5000, 5050, DrawDen - 1}

\* Symbols a request may carry: two registered ones and one that is not.
InputSymbols == {"AAPL", "MSFT", "INVALID"}

RECURSIVE SeqsUpTo(_, _)
SeqsUpTo(S, n) ==
  IF n = 0 THEN {<<>>}
  ELSE LET shorter == SeqsUpTo(S, n - 1)
       IN  shorter \cup {Append(q, x) : q \in {p \in shorter : Len(p) = n - 1}, x \in S}

TapesOfLen(n) == [1..n -> Draws]

\* The draws of a batch call: the two ends and the middle.
BatchDraws == {0, 5000, DrawDen - 1}

BatchTapesOfLen(n) == [1..n -> BatchDraws]

\* Symbol lists a streaming request may carry: none, only unknown, only
\* known, and mixed.
StreamInputs ==
  {<<>>, <<"INVALID">>, <<"AAPL">>, <<"AAPL", "INVALID">>, <<"AAPL", "MSFT">>}

(***************************************************************************)
(* The registry and the value generator.                                   *)
(***************************************************************************)
MockStocksTable ==
  [s \in {"AAPL", "GOOGL", "MSFT", "AMZN", "TSLA"} |->
     CASE s = "AAPL"  -> [name |-> "Apple Inc.",      basePrice |-> 180]
       [] s = "GOOGL" -> [name |-> "Alphabet Inc.",   basePrice |-> 140]
       [] s = "MSFT"  -> [name |-> "Microsoft Corp.", basePrice |-> 380]
       [] s = "AMZN"  -> [name |-> "Amazon.com Inc.", basePrice |-> 170]
       [] s = "TSLA"  -> [name |-> "Tesla Inc.",      basePrice |-> 250]]

MathFloor(n, d) == n \div d

\* Math.round(n / d) for d > 0: the nearest integer, halves towards +infinity.
MathRound(n, d) == (2 * n + d) \div (2 * d)

generatePriceTenPercent(basePrice, r) == basePrice * (18 * DrawDen + 4 * r)

\* basePrice * (1 + (random - 0.5) * 0.1), as a numerator over 20 * DrawDen.
generatePrice(basePrice, r) == basePrice * (19 * DrawDen + 2 * r)

\* (random - 0.5) * 10, as a numerator over DrawDen.
generateChange(r) == 5 * (2 * r - DrawDen)

\* Math.round(price * 100), the price in hundredths.
RoundPrice(price) == MathRound(5 * price, DrawDen)

\* Math.round(change * 100), the change in hundredths.
RoundChange(change) == MathRound(100 * change, DrawDen)

\* Math.round(change * 10), the change in tenths.
RoundChangePercent(change) == MathRound(10 * change, DrawDen)

(***************************************************************************)
(* Effect values: a success with a value or a failure with an error.       *)
(***************************************************************************)
Succeed(v) == [ok |-> TRUE, value |-> v]
Fail(e) == [ok |-> FALSE, error |-> e]

StockNotFoundError(symbol) == [tag |-> "StockNotFoundError", symbol |-> symbol]
InvalidRequestError(message) == [tag |-> "InvalidRequestError", message |-> message]

getStock(symbol) ==
  IF symbol \in DOMAIN mockStocks
    THEN Succeed(mockStocks[symbol])
    ELSE Fail(StockNotFoundError(symbol))

QuoteChangeFromPrice(symbol, price, change) ==
  [symbol        |-> symbol,
   price         |-> RoundPrice(price),
   currency      |-> "USD",
   timestamp     |-> now,
   change        |-> RoundPrice(price) - 100 * mockStocks[symbol].basePrice,
   changePercent |-> RoundChangePercent(change)]

Quote(symbol, price, change) ==
  [symbol        |-> symbol,
   price         |-> RoundPrice(price),
   currency      |-> "USD",
   timestamp     |-> now,
   change        |-> RoundChange(change),
   changePercent |-> RoundChangePercent(change)]

ZeroQuote(symbol) ==
  [symbol        |-> symbol,
   price         |-> 0,
   currency      |-> "USD",
   timestamp     |-> now,
   change        |-> 0,
   changePercent |-> 0]

getStockPriceEffectDegrading(request, tape) ==
  LET stock == getStock(request.symbol)
  IN  IF ~stock.ok THEN Succeed(ZeroQuote(request.symbol))
      ELSE Succeed(Quote(request.symbol,
                         generatePrice(stock.value.basePrice, tape[1]),
                         generateChange(tape[2])))

\* Effect.all({stock, price, change}) runs its three members in order and
\* fails with the first failure; the draws are taken from the tape in the
\* order the members run.
getStockPriceEffect(request, tape) ==
  LET stock == getStock(request.symbol)
  IN  IF ~stock.ok THEN stock
      ELSE LET again == getStock(request.symbol)
           IN  IF ~again.ok THEN again
               ELSE Succeed(Quote(request.symbol,
                                  generatePrice(again.value.basePrice, tape[1]),
                                  generateChange(tape[2])))

runEffectNoInvalidRequest(effect) ==
  IF effect.ok THEN effect
  ELSE IF effect.error.tag = "StockNotFoundError"
         THEN Fail("Stock symbol " \o effect.error.symbol \o " not found")
       ELSE Fail("Unknown error")

\* The catchAll of runEffect: every failure becomes a plain Error, which
\* rejects the promise.  tag stands for the class instanceof tests.
runEffect(effect) ==
  IF effect.ok THEN effect
  ELSE IF effect.error.tag = "StockNotFoundError"
         THEN Fail("Stock symbol " \o effect.error.symbol \o " not found")
       ELSE IF effect.error.tag = "InvalidRequestError"
         THEN Fail(effect.error.message)
       ELSE Fail("Unknown error")

BatchItemFailFast(symbol, tape) ==
  LET stock == getStock(symbol)
  IN  IF stock.ok
        THEN Succeed(Quote(symbol, generatePrice(stock.value.basePrice, tape[1]),
                           generateChange(tape[2])))
        ELSE stock

\* One member of the batch: getStock, then the two draws, then the quote;
\* catchAll turns a failure into the zero quote.
BatchItem(symbol, tape) ==
  LET stock == getStock(symbol)
  IN  IF stock.ok
        THEN Succeed(Quote(symbol, generatePrice(stock.value.basePrice, tape[1]),
                           generateChange(tape[2])))
        ELSE Succeed(ZeroQuote(symbol))

\* The number of draws a batch over symbols takes.
DrawsTaken(symbols) == 2 * Cardinality({i \in DOMAIN symbols : symbols[i] \in DOMAIN mockStocks})

RECURSIVE CollectAllByCompletion(_, _)
CollectAllByCompletion(symbols, tape) ==
  IF symbols = <<>> THEN Succeed(<<>>)
  ELSE LET item == BatchItem(Head(symbols), tape)
           used == IF Head(symbols) \in DOMAIN mockStocks THEN 2 ELSE 0
           rest == CollectAllByCompletion(Tail(symbols), SubSeq(tape, used + 1, Len(tape)))
       IN  IF ~item.ok THEN item
           ELSE IF ~rest.ok THEN rest
           ELSE IF Head(symbols) \in DOMAIN mockStocks
             THEN Succeed(rest.value \o <<item.value>>)
             ELSE Succeed(<<item.value>> \o rest.value)

\* Effect.all over the array: the members run in input order, the first
\* failure fails the whole, and the result array has the member results at
\* the members' positions.
RECURSIVE CollectAll(_, _)
CollectAll(symbols, tape) ==
  IF symbols = <<>> THEN Succeed(<<>>)
  ELSE LET item == BatchItem(Head(symbols), tape)
           used == IF Head(symbols) \in DOMAIN mockStocks THEN 2 ELSE 0
           rest == CollectAll(Tail(symbols), SubSeq(tape, used + 1, Len(tape)))
       IN  IF ~item.ok THEN item
           ELSE IF ~rest.ok THEN rest
           ELSE Succeed(<<item.value>> \o rest.value)

getMultiplePricesEffect(request, tape) ==
  LET all == CollectAll(request.symbols, tape)
  IN  IF all.ok THEN Succeed([prices |-> all.value]) ELSE all

(***************************************************************************)
(* The plain nice-grpc service computes the same calls without Effect.     *)
(***************************************************************************)
PlainGetStockPriceResult(request, tape) ==
  IF request.symbol \notin DOMAIN mockStocks
    THEN Fail("Stock symbol " \o request.symbol \o " not found")
    ELSE Succeed(Quote(request.symbol,
                       generatePrice(mockStocks[request.symbol].basePrice, tape[1]),
                       generateChange(tape[2])))

\* symbols.map(...): element i of the result is made from element i of the
\* input; the callback runs in index order, so the draws of element i come
\* after the draws of the elements before it.
PlainGetMultipleResult(request, tape) ==
  LET symbols == request.symbols
      before(i) == DrawsTaken(SubSeq(symbols, 1, i - 1))
  IN  Succeed([prices |->
        [i \in 1..Len(symbols) |->
           IF symbols[i] \notin DOMAIN mockStocks
             THEN ZeroQuote(symbols[i])
             ELSE Quote(symbols[i],
                        generatePrice(mockStocks[symbols[i]].basePrice, tape[before(i) + 1]),
                        generateChange(tape[before(i) + 2]))]])

(***************************************************************************)
(* The transport adapters.  An outcome is the result handed to the caller  *)
(* and the status the transport reports for it.                            *)
(***************************************************************************)
GrpcStatus(code) == [protocol |-> "grpc", code |-> code]
HttpStatus(code) == [protocol |-> "http", code |-> code]

\* A nice-grpc handler: the returned promise resolves, or rejects with the
\* Error built by runEffect or thrown by the plain handler.  That Error is
\* not a ServerError and carries no status code, so the call ends with the
\* status of an unclassified failure.
NiceGrpcOutcome(result) ==
  [result |-> result,
   status |-> GrpcStatus(IF result.ok THEN "OK" ELSE "UNKNOWN")]

\* The grpc-js handlers: callback(error) with code NOT_FOUND, or
\* callback(null, response).
GrpcJsGetStockPrice(request, tape) ==
  IF request.symbol \notin DOMAIN mockStocks
    THEN [result |-> Fail("Stock symbol " \o request.symbol \o " not found"),
          status |-> GrpcStatus("NOT_FOUND")]
    ELSE [result |-> Succeed(Quote(request.symbol,
                                   generatePrice(mockStocks[request.symbol].basePrice, tape[1]),
                                   generateChange(tape[2]))),
          status |-> GrpcStatus("OK")]

GrpcJsGetMultipleStockPrices(request, tape) ==
  [result |-> PlainGetMultipleResult(request, tape),
   status |-> GrpcStatus("OK")]

\* StockServiceImpl.GetStockPrice of the HTTP server: Effect.fail(new Error)
\* for an unknown symbol, the draws come from Random.next.
HttpGetStockPrice(request, tape) ==
  IF request.symbol \notin DOMAIN mockStocks
    THEN Fail("Stock symbol " \o request.symbol \o " not found")
    ELSE Succeed(Quote(request.symbol,
                       generatePrice(mockStocks[request.symbol].basePrice, tape[1]),
                       generateChange(tape[2])))

\* The POST /api/stock/price route: the service effect is yielded as it is;
\* a success is answered with Http.response.json, a failure is not caught
\* and leaves the route as an unhandled error of the server.
PostStockPrice(request, tape) ==
  LET response == HttpGetStockPrice(request, tape)
  IN  [result |-> response,
       status |-> HttpStatus(IF response.ok THEN 200 ELSE 500)]

(***************************************************************************)
(* One tick of a subscription.  The tape holds the draws in the order they *)
(* are taken: the symbol, the price, the volume.                           *)
(***************************************************************************)
Null == [isNull |-> TRUE]

\* Math.floor(random * symbols.length), a 0-based index.
SelectIndex(symbols, r) == (r * Len(symbols)) \div DrawDen

VolumeTimesTen(r) == r * ((10 * VolumeRange) \div DrawDen)

\* Math.floor(random * 1000000), computed without leaving 32 bits.
Volume(r) ==
  r * (VolumeRange \div DrawDen) + (r * (VolumeRange % DrawDen)) \div DrawDen

PriceUpdate(symbol, price, volume, time) ==
  [symbol    |-> symbol,
   price     |-> RoundPrice(price),
   timestamp |-> time,
   volume    |-> volume]

updateEffectNoCatch(symbols, tape, time) ==
  LET index == SelectIndex(symbols, tape[1])
      selected == IF index + 1 \in DOMAIN symbols
                    THEN Succeed(symbols[index + 1])
                    ELSE Fail(InvalidRequestError("No symbol selected"))
  IN  IF ~selected.ok THEN selected
      ELSE LET stock == getStock(selected.value)
           IN  IF ~stock.ok THEN stock
               ELSE Succeed(PriceUpdate(selected.value,
                                        generatePrice(stock.value.basePrice, tape[2]),
                                        Volume(tape[3]), time))

\* The Effect-based service: select, filterOrFail on undefined, getStock,
\* the draws, the event; catchAll turns every failure into null.
updateEffect(symbols, tape, time) ==
  LET index == SelectIndex(symbols, tape[1])
      selected == IF index + 1 \in DOMAIN symbols
                    THEN Succeed(symbols[index + 1])
                    ELSE Fail(InvalidRequestError("No symbol selected"))
      made == IF ~selected.ok THEN selected
              ELSE LET stock == getStock(selected.value)
                   IN  IF ~stock.ok THEN stock
                       ELSE Succeed(PriceUpdate(selected.value,
                                                generatePrice(stock.value.basePrice, tape[2]),
                                                Volume(tape[3]), time))
  IN  IF made.ok THEN made ELSE Succeed(Null)

PlainUpdateVolumeFirst(symbols, tape, time) ==
  LET index == SelectIndex(symbols, tape[1])
      defined == index + 1 \in DOMAIN symbols /\ symbols[index + 1] # ""
  IN  IF defined /\ symbols[index + 1] \in DOMAIN mockStocks
        THEN PriceUpdate(symbols[index + 1],
                         generatePrice(mockStocks[symbols[index + 1]].basePrice, tape[3]),
                         Volume(tape[2]), time)
        ELSE Null

\* The plain service: an undefined or empty symbol and an unknown symbol
\* both skip the tick.
PlainUpdate(symbols, tape, time) ==
  LET index == SelectIndex(symbols, tape[1])
      defined == index + 1 \in DOMAIN symbols /\ symbols[index + 1] # ""
  IN  IF defined /\ symbols[index + 1] \in DOMAIN mockStocks
        THEN PriceUpdate(symbols[index + 1],
                         generatePrice(mockStocks[symbols[index + 1]].basePrice, tape[2]),
                         Volume(tape[3]), time)
        ELSE Null

IntervalCallbackZeroPrice(symbols, tape, time) ==
  LET index == SelectIndex(symbols, tape[1])
      defined == index + 1 \in DOMAIN symbols /\ symbols[index + 1] # ""
  IN  IF ~defined THEN Null
      ELSE IF symbols[index + 1] \notin DOMAIN mockStocks
        THEN PriceUpdate(symbols[index + 1], 0, Volume(tape[3]), time)
        ELSE PriceUpdate(symbols[index + 1],
                         generatePrice(mockStocks[symbols[index + 1]].basePrice, tape[2]),
                         Volume(tape[3]), time)

\* The callback of the grpc-js service: the same selection and the same
\* skip; a non-null result is what call.write is given.
IntervalCallback(symbols, tape, time) ==
  LET index == SelectIndex(symbols, tape[1])
      defined == index + 1 \in DOMAIN symbols /\ symbols[index + 1] # ""
  IN  IF ~defined \/ symbols[index + 1] \notin DOMAIN mockStocks
        THEN Null
        ELSE PriceUpdate(symbols[index + 1],
                         generatePrice(mockStocks[symbols[index + 1]].basePrice, tape[2]),
                         Volume(tape[3]), time)

TickResultThrowOnSkip(kind, symbols, tape, time) ==
  IF kind = "effect" THEN updateEffect(symbols, tape, time)
  ELSE IF PlainUpdate(symbols, tape, time) = Null
         THEN Fail(InvalidRequestError("No symbol selected"))
         ELSE Succeed(PlainUpdate(symbols, tape, time))

\* What one pass of a generator body gives: the awaited result of
\* runPromise(updateEffect), which rejects when the effect fails, or the
\* plain computation, which cannot fail.
TickResult(kind, symbols, tape, time) ==
  IF kind = "effect" THEN updateEffect(symbols, tape, time)
  ELSE Succeed(PlainUpdate(symbols, tape, time))

(***************************************************************************)
(* State.                                                                  *)
(***************************************************************************)
\* The subscriptions: the first one, and a second one of another consumer
\* or of the same consumer subscribing again.
SubIds == {1, 2}
FirstSub == {1}

NoReply == [op |-> "none"]

\* A subscription.  kind: the service that runs it.  pc: for the async
\* generators "suspended" (not started, or stopped at a yield), "sleeping"
\* (a next() is running and waits for its setTimeout) and "done" (returned);
\* and "failed" (the body threw); for the grpc-js handler "armed"
\* (setInterval set) and "cleared".  signals lists the cancellation and
\* error signals received.  ticks, emitted, lateTicks and lateEvents count
\* timer callbacks and events, in total and since the cancellation; backlog
\* counts the events written to the call and not yet taken by the consumer.
\* buffer lists those events and seen lists the events the consumer has
\* observed, oldest first, each by the number of the tick that made it and
\* its timestamp.
NoSub ==
  [kind |-> "none", symbols |-> <<>>, pc |-> "none", cancelled |-> FALSE,
   signals |-> <<>>, ticks |-> 0, emitted |-> 0, last |-> Null, backlog |-> 0,
   lateTicks |-> 0, lateEvents |-> 0, buffer |-> <<>>, seen |-> <<>>]

\* The trace of an event: the tick that made it and its timestamp.
Trace(tick, event) == [tick |-> tick, timestamp |-> event.timestamp]

\* The start-up of the gRPC server.  pc: "init", "created" (createServer),
\* "registered" (server.add), "listening" (the promise of server.listen is
\* pending), "bound" (it resolved; the log lines follow), "never" (suspended
\* on Effect.never), "failed" (it rejected), "interrupted".
NoServer ==
  [pc |-> "init", port |-> 0, services |-> {}, address |-> "none",
   log |-> <<>>, error |-> "none"]

\* One streamPriceUpdates call of the fetch client.  pc: "idle", "fetching"
\* (awaiting fetch), "reading" (awaiting reader.read) and "ended" (startStream
\* has returned).  text is what the server sends and pending the part of it
\* not read yet; buffer is the variable of that name; emitted lists the
\* values given to emit.single; failures and ends count the emit.fail and
\* emit.end calls; aborted is abortController.signal.aborted.
NoClient ==
  [pc |-> "idle", text |-> <<>>, pending |-> <<>>, buffer |-> <<>>,
   emitted |-> <<>>, failures |-> 0, ends |-> 0, aborted |-> FALSE]

GeneratorKinds == {"effect", "plain"}
StreamKinds == GeneratorKinds \cup {"grpcjs"}

Init ==
  /\ mockStocks = MockStocksTable
  /\ now = StartTime
  /\ reply = NoReply
  /\ sub = [s \in SubIds |-> NoSub]
  /\ server = NoServer
  /\ client = NoClient

(***************************************************************************)
(* Unary calls.  The reply is the settled promise handed to the caller;    *)
(* impl names the service that answered.                                   *)
(***************************************************************************)
Impls == {"effect", "plain", "grpcjs", "http"}
BatchImpls == {"effect", "plain", "grpcjs"}

GetStockPriceOutcome(impl, request, tape) ==
  CASE impl = "effect" -> NiceGrpcOutcome(runEffect(getStockPriceEffect(request, tape)))
    [] impl = "plain"  -> NiceGrpcOutcome(PlainGetStockPriceResult(request, tape))
    [] impl = "grpcjs" -> GrpcJsGetStockPrice(request, tape)
    [] impl = "http"   -> PostStockPrice(request, tape)

GetMultipleOutcome(impl, request, tape) ==
  CASE impl = "effect" -> NiceGrpcOutcome(runEffect(getMultiplePricesEffect(request, tape)))
    [] impl = "plain"  -> NiceGrpcOutcome(PlainGetMultipleResult(request, tape))
    [] impl = "grpcjs" -> GrpcJsGetMultipleStockPrices(request, tape)

GetStockPriceRandomWalk(impl, symbol, tape) ==
  /\ reply = NoReply
  /\ LET outcome == GetStockPriceOutcome(impl, [symbol |-> symbol], tape)
     IN  /\ reply' = [op      |-> "getStockPrice",
                      impl    |-> impl,
                      request |-> [symbol |-> symbol],
                      result  |-> outcome.result,
                      status  |-> outcome.status]
         /\ mockStocks' = IF outcome.result.ok
                            THEN [mockStocks EXCEPT ![symbol].basePrice =
                                    outcome.result.value.price \div 100]
                            ELSE mockStocks
  /\ UNCHANGED <<now, sub, server, client>>

GetStockPrice(impl, symbol, tape) ==
  /\ reply = NoReply
  /\ LET outcome == GetStockPriceOutcome(impl, [symbol |-> symbol], tape)
     IN  reply' = [op      |-> "getStockPrice",
                   impl    |-> impl,
                   request |-> [symbol |-> symbol],
                   result  |-> outcome.result,
                   status  |-> outcome.status]
  /\ UNCHANGED <<mockStocks, now, sub, server, client>>

GetMultipleStockPricesRegisters(impl, symbols, tape) ==
  /\ reply = NoReply
  /\ LET outcome == GetMultipleOutcome(impl, [symbols |-> symbols], tape)
         entries == DOMAIN mockStocks \cup {symbols[i] : i \in DOMAIN symbols}
     IN  /\ reply' = [op      |-> "getMultipleStockPrices",
                      impl    |-> impl,
                      request |-> [symbols |-> symbols],
                      result  |-> outcome.result,
                      status  |-> outcome.status]
         /\ mockStocks' = [x \in entries |->
                             IF x \in DOMAIN mockStocks THEN mockStocks[x]
                             ELSE [name |-> x, basePrice |-> 0]]
  /\ UNCHANGED <<now, sub, server, client>>

GetMultipleStockPrices(impl, symbols, tape) ==
  /\ reply = NoReply
  /\ LET outcome == GetMultipleOutcome(impl, [symbols |-> symbols], tape)
     IN  reply' = [op      |-> "getMultipleStockPrices",
                   impl    |-> impl,
                   request |-> [symbols |-> symbols],
                   result  |-> outcome.result,
                   status  |-> outcome.status]
  /\ UNCHANGED <<mockStocks, now, sub, server, client>>

\* The caller takes the settled promise.
Receive ==
  /\ reply # NoReply
  /\ reply' = NoReply
  /\ UNCHANGED <<mockStocks, now, sub, server, client>>

\* A caller has one call in flight at a time.
NextResolve ==
  \/ /\ reply = NoReply
     /\ \E impl \in Impls, symbol \in InputSymbols, tape \in TapesOfLen(2) :
          GetStockPrice(impl, symbol, tape)
  \/ /\ reply = NoReply
     /\ \E impl \in BatchImpls, symbols \in SeqsUpTo(InputSymbols, MaxBatch) :
          \E tape \in BatchTapesOfLen(DrawsTaken(symbols)) :
            GetMultipleStockPrices(impl, symbols, tape)
  \/ Receive

SpecResolve == Init /\ [][NextResolve]_vars

\* getStockPrice with every value Math.random() can give to generateChange.
AllDraws == 0..(DrawDen - 1)
QuoteTapes == {<<r1, r2>> : r1 \in Draws, r2 \in AllDraws}

NextQuote ==
  \/ /\ reply = NoReply
     /\ \E impl \in Impls, symbol \in InputSymbols, tape \in QuoteTapes :
          GetStockPrice(impl, symbol, tape)
  \/ Receive

SpecQuote == Init /\ [][NextQuote]_vars

(***************************************************************************)
(* Subscriptions.                                                          *)
(***************************************************************************)
\* streamPriceUpdates(request) makes the generator object and runs none of
\* its body; StreamPriceUpdates(call) arms the interval and registers the
\* two handlers.
Subscribe(s, kind, symbols) ==
  /\ sub[s].kind = "none"
  /\ sub' = [sub EXCEPT ![s] =
               [NoSub EXCEPT !.kind = kind,
                             !.symbols = symbols,
                             !.pc = IF kind = "grpcjs" THEN "armed" ELSE "suspended"]]
  /\ UNCHANGED <<mockStocks, now, reply, server, client>>

PullRestarts(s) ==
  /\ sub[s].kind \in GeneratorKinds
  /\ sub[s].pc \in {"suspended", "done"}
  /\ sub' = [sub EXCEPT ![s].pc = "sleeping"]
  /\ UNCHANGED <<mockStocks, now, reply, server, client>>

\* The consumer asks for the next event: the generator body runs up to the
\* await of its setTimeout.  next() on a finished generator runs nothing.
Pull(s) ==
  /\ sub[s].kind \in GeneratorKinds
  /\ sub[s].pc = "suspended"
  /\ ~sub[s].cancelled
  /\ sub' = [sub EXCEPT ![s].pc = "sleeping"]
  /\ UNCHANGED <<mockStocks, now, reply, server, client>>

Late(s) == IF sub[s].cancelled THEN 1 ELSE 0

\* The setTimeout of a generator fires: the body runs from the await to the
\* yield, or around the loop to the next await when the tick gives nothing.
\* A return() that was queued while the body ran takes effect at the yield.
\* A rejected runPromise throws out of the body and ends the generator.
TimerFire(s, tape) ==
  /\ sub[s].kind \in GeneratorKinds
  /\ sub[s].pc = "sleeping"
  /\ sub[s].ticks < MaxTicks
  /\ now' = now + Cadence
  /\ LET result == TickResult(sub[s].kind, sub[s].symbols, tape, now')
     IN  sub' = [sub EXCEPT ![s] =
           IF ~result.ok
             THEN [@ EXCEPT !.ticks = @ + 1,
                            !.lateTicks = @ + Late(s),
                            !.pc = "failed"]
           ELSE IF result.value # Null
             THEN [@ EXCEPT !.ticks = @ + 1,
                            !.lateTicks = @ + Late(s),
                            !.emitted = @ + 1,
                            !.lateEvents = @ + Late(s),
                            !.last = result.value,
                            !.seen = Append(@, Trace(sub[s].ticks + 1, result.value)),
                            !.pc = IF sub[s].cancelled THEN "done" ELSE "suspended"]
             ELSE [@ EXCEPT !.ticks = @ + 1,
                            !.lateTicks = @ + Late(s)]]
  /\ UNCHANGED <<mockStocks, reply, server, client>>

\* The consumer leaves its for-await loop or gives the stream up: return()
\* ends a suspended generator at once and is queued behind a running next().
Cancel(s) ==
  /\ sub[s].kind \in GeneratorKinds
  /\ Len(sub[s].signals) < MaxSignals
  /\ sub' = [sub EXCEPT ![s].cancelled = TRUE,
                        ![s].signals = Append(@, "return"),
                        ![s].pc = IF @ = "suspended" THEN "done" ELSE @]
  /\ UNCHANGED <<mockStocks, now, reply, server, client>>

IntervalFireWritesTwice(s, tape) ==
  /\ sub[s].kind = "grpcjs"
  /\ sub[s].pc = "armed"
  /\ sub[s].ticks < MaxTicks
  /\ now' = now + Cadence
  /\ LET result == IntervalCallback(sub[s].symbols, tape, now')
     IN  sub' = [sub EXCEPT ![s] =
           IF result # Null
             THEN [@ EXCEPT !.ticks = @ + 1,
                            !.lateTicks = @ + Late(s),
                            !.emitted = @ + 1,
                            !.lateEvents = @ + Late(s),
                            !.last = result,
                            !.buffer = @ \o <<Trace(sub[s].ticks + 1, result),
                                              Trace(sub[s].ticks + 1, result)>>,
                            !.backlog = @ + 2]
             ELSE [@ EXCEPT !.ticks = @ + 1,
                            !.lateTicks = @ + Late(s)]]
  /\ UNCHANGED <<mockStocks, reply, server, client>>

\* The setInterval callback of the grpc-js handler; the result of
\* call.write is not looked at.
IntervalFire(s, tape) ==
  /\ sub[s].kind = "grpcjs"
  /\ sub[s].pc = "armed"
  /\ sub[s].ticks < MaxTicks
  /\ now' = now + Cadence
  /\ LET result == IntervalCallback(sub[s].symbols, tape, now')
     IN  sub' = [sub EXCEPT ![s] =
           IF result # Null
             THEN [@ EXCEPT !.ticks = @ + 1,
                            !.lateTicks = @ + Late(s),
                            !.emitted = @ + 1,
                            !.lateEvents = @ + Late(s),
                            !.last = result,
                            !.buffer = Append(@, Trace(sub[s].ticks + 1, result)),
                            !.backlog = @ + 1]
             ELSE [@ EXCEPT !.ticks = @ + 1,
                            !.lateTicks = @ + Late(s)]]
  /\ UNCHANGED <<mockStocks, reply, server, client>>

\* call.on('cancelled'): clearInterval.
OnCancelledShared(s) ==
  /\ sub[s].kind = "grpcjs"
  /\ Len(sub[s].signals) < MaxSignals
  /\ sub' = [t \in SubIds |->
               IF t = s
                 THEN [sub[t] EXCEPT !.cancelled = TRUE,
                                     !.signals = Append(@, "cancelled"),
                                     !.pc = "cleared"]
               ELSE IF sub[t].pc = "armed"
                 THEN [sub[t] EXCEPT !.pc = "cleared"]
                 ELSE sub[t]]
  /\ UNCHANGED <<mockStocks, now, reply, server, client>>

OnCancelledNoClear(s) ==
  /\ sub[s].kind = "grpcjs"
  /\ Len(sub[s].signals) < MaxSignals
  /\ sub' = [sub EXCEPT ![s].cancelled = TRUE,
                        ![s].signals = Append(@, "cancelled")]
  /\ UNCHANGED <<mockStocks, now, reply, server, client>>

OnCancelledToggle(s) ==
  /\ sub[s].kind = "grpcjs"
  /\ Len(sub[s].signals) < MaxSignals
  /\ sub' = [sub EXCEPT ![s].cancelled = TRUE,
                        ![s].signals = Append(@, "cancelled"),
                        ![s].pc = IF @ = "armed" THEN "cleared" ELSE "armed"]
  /\ UNCHANGED <<mockStocks, now, reply, server, client>>

OnCancelled(s) ==
  /\ sub[s].kind = "grpcjs"
  /\ Len(sub[s].signals) < MaxSignals
  /\ sub' = [sub EXCEPT ![s].cancelled = TRUE,
                        ![s].signals = Append(@, "cancelled"),
                        ![s].pc = "cleared"]
  /\ UNCHANGED <<mockStocks, now, reply, server, client>>

\* call.on('error'): clearInterval.
OnError(s) ==
  /\ sub[s].kind = "grpcjs"
  /\ Len(sub[s].signals) < MaxSignals
  /\ sub' = [sub EXCEPT ![s].signals = Append(@, "error"),
                        ![s].pc = "cleared"]
  /\ UNCHANGED <<mockStocks, now, reply, server, client>>

\* The consumer of an open call takes the oldest written event.
Accept(s) ==
  /\ sub[s].kind = "grpcjs"
  /\ sub[s].pc = "armed"
  /\ sub[s].backlog > 0
  /\ sub' = [sub EXCEPT ![s].backlog = @ - 1,
                        ![s].seen = Append(@, Head(sub[s].buffer)),
                        ![s].buffer = Tail(@)]
  /\ UNCHANGED <<mockStocks, now, reply, server, client>>

NextStream ==
  \/ \E s \in FirstSub, kind \in StreamKinds, symbols \in StreamInputs :
       Subscribe(s, kind, symbols)
  \/ \E s \in FirstSub : Pull(s)
  \/ \E s \in FirstSub, tape \in TapesOfLen(3) : TimerFire(s, tape)
  \/ \E s \in FirstSub : Cancel(s)
  \/ \E s \in FirstSub, tape \in TapesOfLen(3) : IntervalFire(s, tape)
  \/ \E s \in FirstSub : OnCancelled(s)
  \/ \E s \in FirstSub : OnError(s)
  \/ \E s \in FirstSub : Accept(s)

SpecStream == Init /\ [][NextStream]_vars

\* Two subscriptions side by side, on short symbol lists and the two
\* extreme tapes.
PairInputs == {<<"AAPL">>, <<"MSFT", "INVALID">>}
PairTapes == {<<0, 0, 0>>, <<DrawDen - 1, DrawDen - 1, DrawDen - 1>>}

\* The pair is followed for MaxPairTicks timer callbacks in all.
PairTicksLeft == sub[1].ticks + sub[2].ticks < MaxPairTicks

NextPair ==
  \/ \E s \in SubIds, kind \in StreamKinds, symbols \in PairInputs :
       Subscribe(s, kind, symbols)
  \/ \E s \in SubIds : Pull(s)
  \/ /\ PairTicksLeft
     /\ \E s \in SubIds, tape \in PairTapes : TimerFire(s, tape)
  \/ \E s \in SubIds : Cancel(s)
  \/ /\ PairTicksLeft
     /\ \E s \in SubIds, tape \in PairTapes : IntervalFire(s, tape)
  \/ \E s \in SubIds : OnCancelled(s)
  \/ \E s \in SubIds : OnError(s)
  \/ \E s \in SubIds : Accept(s)

SpecPair == Init /\ [][NextPair]_vars

(***************************************************************************)
(* The GET /api/stock/stream route.  A text is a sequence of tokens: the   *)
(* separators "?", "&", "=", "," and runs of other characters.             *)
(***************************************************************************)
UrlTokens == {"?", "&", "=", ",", "symbols", "AAPL"}
StreamPath == "/api/stock/stream"

\* The index of the first token equal to sep, or 0.
RECURSIVE IndexOf(_, _, _)
IndexOf(text, sep, from) ==
  IF from > Len(text) THEN 0
  ELSE IF text[from] = sep THEN from
  ELSE IndexOf(text, sep, from + 1)

\* String.prototype.split(sep): the pieces between the separators; a text
\* without separator, the empty one included, gives one piece.
RECURSIVE Split(_, _)
Split(text, sep) ==
  LET i == IndexOf(text, sep, 1)
  IN  IF i = 0 THEN <<text>>
      ELSE <<SubSeq(text, 1, i - 1)>> \o Split(SubSeq(text, i + 1, Len(text)), sep)

\* The characters of a text, as one string.
RECURSIVE Join(_)
Join(text) == IF text = <<>> THEN "" ELSE Head(text) \o Join(Tail(text))

\* new URLSearchParams(query): the non-empty pieces between "&", each cut
\* at its first "=" into a name and a value.
SearchParams(query) ==
  LET pieces == Split(query, "&")
      pair(piece) ==
        LET i == IndexOf(piece, "=", 1)
        IN  IF i = 0 THEN [name |-> piece, value |-> <<>>]
            ELSE [name  |-> SubSeq(piece, 1, i - 1),
                  value |-> SubSeq(piece, i + 1, Len(piece))]
  IN  [k \in 1..Len(pieces) |-> pair(pieces[k])]

\* params.get(name): the value of the first pair of that name, or null
\* (found is FALSE).
ParamsGet(params, name) ==
  LET hits == {k \in 1..Len(params) :
                 params[k].name # <<>> /\ Join(params[k].name) = name}
  IN  IF hits = {} THEN [found |-> FALSE]
      ELSE [found |-> TRUE,
            value |-> params[CHOOSE k \in hits : \A h \in hits : k <= h].value]

\* url.split("?")[1] || "".
QueryOf(url) ==
  LET parts == Split(url, "?")
  IN  IF Len(parts) >= 2 THEN parts[2] ELSE <<>>

\* params.get("symbols")?.split(",") || [], each symbol as a string.
RouteSymbols(url) ==
  LET got == ParamsGet(SearchParams(QueryOf(url)), "symbols")
  IN  IF ~got.found THEN <<>>
      ELSE LET pieces == Split(got.value, ",")
           IN  [k \in 1..Len(pieces) |-> Join(pieces[k])]

\* The route: 400 when the list is empty, otherwise one call of
\* service.StreamPriceUpdates({ symbols }) answered as an event stream.
GetStockStream(url) ==
  /\ reply = NoReply
  /\ LET symbols == RouteSymbols(url)
     IN  reply' = IF Len(symbols) = 0
                    THEN [op            |-> "getStockStream",
                          url           |-> url,
                          status        |-> HttpStatus(400),
                          error         |-> "No symbols provided",
                          subscriptions |-> <<>>]
                    ELSE [op            |-> "getStockStream",
                          url           |-> url,
                          status        |-> HttpStatus(200),
                          error         |-> "none",
                          subscriptions |-> <<[symbols |-> symbols]>>]
  /\ UNCHANGED <<mockStocks, now, sub, server, client>>

NextHttpStream ==
  \/ /\ reply = NoReply
     /\ \E rest \in SeqsUpTo(UrlTokens, MaxUrl) : GetStockStream(<<StreamPath>> \o rest)
  \/ Receive

SpecHttpStream == Init /\ [][NextHttpStream]_vars

(***************************************************************************)
(* The read loop of the fetch client.  The server's text is a sequence of  *)
(* tokens: the line prefix "data: ", the newline and payload characters.   *)
(***************************************************************************)
NL == "\n"
DataPrefix == "data: "
TextTokens == {DataPrefix, "1", "2", NL}

\* line.startsWith("data: ").
StartsWithData(line) == line # <<>> /\ Head(line) = DataPrefix

\* JSON.parse(payload) succeeds: the payload is a number, a non-empty run
\* of digits.
Parses(payload) == payload # <<>> /\ \A k \in 1..Len(payload) : payload[k] \in {"1", "2"}

\* The updates the for loop emits for a list of lines: the parsed payloads
\* of the "data: " lines, in order; a payload that does not parse is
\* skipped by the inner catch.
RECURSIVE UpdatesOf(_)
UpdatesOf(lines) ==
  IF lines = <<>> THEN <<>>
  ELSE LET line == Head(lines)
           rest == UpdatesOf(Tail(lines))
       IN  IF StartsWithData(line) /\ Parses(Tail(line))
             THEN <<Join(Tail(line))>> \o rest
             ELSE rest

LinesOfNoCarry(buffer, chunk) ==
  LET pieces == Split(chunk, NL)
  IN  [lines |-> SubSeq(pieces, 1, Len(pieces) - 1), buffer |-> pieces[Len(pieces)]]

\* buffer += chunk; lines = buffer.split('\n'); buffer = lines.pop() || "".
LinesOf(buffer, chunk) ==
  LET pieces == Split(buffer \o chunk, NL)
  IN  [lines |-> SubSeq(pieces, 1, Len(pieces) - 1), buffer |-> pieces[Len(pieces)]]

\* streamPriceUpdates is called and runs up to the await of fetch; the
\* text is what the server will send on this connection.
StartStream(text) ==
  /\ client.pc = "idle"
  /\ client' = [client EXCEPT !.pc = "fetching", !.text = text, !.pending = text]
  /\ UNCHANGED <<mockStocks, now, reply, sub, server>>

\* fetch resolves with an ok response that has a body.
FetchResolves ==
  /\ client.pc = "fetching"
  /\ ~client.aborted
  /\ client' = [client EXCEPT !.pc = "reading"]
  /\ UNCHANGED <<mockStocks, now, reply, sub, server>>

\* fetch rejects, or the response is not ok: the throw lands in the outer
\* catch, then emit.end().
FetchFails ==
  /\ client.pc = "fetching"
  /\ ~client.aborted
  /\ client' = [client EXCEPT !.pc = "ended", !.failures = @ + 1, !.ends = @ + 1]
  /\ UNCHANGED <<mockStocks, now, reply, sub, server>>

ReadChunkThrowing(n) ==
  /\ client.pc = "reading"
  /\ ~client.aborted
  /\ n \in 1..Len(client.pending)
  /\ LET cut == LinesOf(client.buffer, SubSeq(client.pending, 1, n))
         bad == \E k \in 1..Len(cut.lines) :
                  StartsWithData(cut.lines[k]) /\ ~Parses(Tail(cut.lines[k]))
     IN  client' = IF bad
                     THEN [client EXCEPT !.pending = SubSeq(@, n + 1, Len(@)),
                                         !.pc = "ended", !.failures = @ + 1,
                                         !.ends = @ + 1]
                     ELSE [client EXCEPT
                             !.pending = SubSeq(@, n + 1, Len(@)),
                             !.buffer = cut.buffer,
                             !.emitted = @ \o UpdatesOf(cut.lines)]
  /\ UNCHANGED <<mockStocks, now, reply, sub, server>>

\* reader.read() resolves with the next n characters of the text; the loop
\* body runs to the next read.
ReadChunk(n) ==
  /\ client.pc = "reading"
  /\ ~client.aborted
  /\ n \in 1..Len(client.pending)
  /\ LET cut == LinesOf(client.buffer, SubSeq(client.pending, 1, n))
     IN  client' = [client EXCEPT
                     !.pending = SubSeq(@, n + 1, Len(@)),
                     !.buffer = cut.buffer,
                     !.emitted = @ \o UpdatesOf(cut.lines)]
  /\ UNCHANGED <<mockStocks, now, reply, sub, server>>

\* reader.read() resolves with done: break, emit.end().
ReadDone ==
  /\ client.pc = "reading"
  /\ ~client.aborted
  /\ client.pending = <<>>
  /\ client' = [client EXCEPT !.pc = "ended", !.ends = @ + 1]
  /\ UNCHANGED <<mockStocks, now, reply, sub, server>>

\* reader.read() rejects without an abort: emit.fail, emit.end().
ReadFails ==
  /\ client.pc = "reading"
  /\ ~client.aborted
  /\ client' = [client EXCEPT !.pc = "ended", !.failures = @ + 1, !.ends = @ + 1]
  /\ UNCHANGED <<mockStocks, now, reply, sub, server>>

\* The consumer interrupts the stream: the finalizer calls
\* abortController.abort().
Abort ==
  /\ client.pc # "idle"
  /\ ~client.aborted
  /\ client' = [client EXCEPT !.aborted = TRUE]
  /\ UNCHANGED <<mockStocks, now, reply, sub, server>>

AbortSettlesWithFailure ==
  /\ client.pc \in {"fetching", "reading"}
  /\ client.aborted
  /\ client' = [client EXCEPT !.pc = "ended", !.failures = @ + 1, !.ends = @ + 1]
  /\ UNCHANGED <<mockStocks, now, reply, sub, server>>

\* The pending fetch or read rejects because of the abort: the outer catch
\* sees signal.aborted and emits no failure, then emit.end().  An aborted
\* signal rejects the pending read, so no chunk is delivered after abort().
AbortSettles ==
  /\ client.pc \in {"fetching", "reading"}
  /\ client.aborted
  /\ client' = [client EXCEPT !.pc = "ended", !.ends = @ + 1]
  /\ UNCHANGED <<mockStocks, now, reply, sub, server>>

NextClient ==
  \/ /\ client.pc = "idle"
     /\ \E text \in SeqsUpTo(TextTokens, MaxText) : StartStream(text)
  \/ FetchResolves
  \/ FetchFails
  \/ \E n \in 1..MaxText : ReadChunk(n)
  \/ ReadDone
  \/ ReadFails
  \/ Abort
  \/ AbortSettles

SpecClient == Init /\ [][NextClient]_vars

(***************************************************************************)
(* startServerEffect, step by step.                                        *)
(***************************************************************************)
Ports == {1, 80, 443, 3000, 8080, 50051, 50052, 65535}
ListenErrors == {"Port already in use", "Permission denied"}

Digit(d) ==
  CASE d = 0 -> "0" [] d = 1 -> "1" [] d = 2 -> "2" [] d = 3 -> "3" [] d = 4 -> "4"
    [] d = 5 -> "5" [] d = 6 -> "6" [] d = 7 -> "7" [] d = 8 -> "8" [] d = 9 -> "9"

\* `${config.port}`: the decimal digits of a non-negative integer.
RECURSIVE Decimal(_)
Decimal(n) == IF n < 10 THEN Digit(n) ELSE Decimal(n \div 10) \o Digit(n % 10)

\* The Console.log lines, in program order.
StartupLines(port) ==
  <<"gRPC Stock Price Server listening on port " \o Decimal(port),
    "Using real protobuf binary serialization",
    "Service: StockService",
    "Methods:",
    "  - GetStockPrice (unary)",
    "  - GetMultipleStockPrices (unary)",
    "  - StreamPriceUpdates (server streaming)">>

\* yield* ServerConfigService; createServer().
CreateServer(port) ==
  /\ server.pc = "init"
  /\ server' = [server EXCEPT !.pc = "created", !.port = port]
  /\ UNCHANGED <<mockStocks, now, reply, sub, client>>

\* server.add(StockServiceDefinition, stockServiceImpl).
AddService ==
  /\ server.pc = "created"
  /\ server' = [server EXCEPT !.pc = "registered",
                              !.services = @ \cup {"StockService"}]
  /\ UNCHANGED <<mockStocks, now, reply, sub, client>>

ListenBeforeAdd ==
  /\ server.pc = "created"
  /\ server' = [server EXCEPT !.pc = "listening",
                              !.address = "0.0.0.0:" \o Decimal(server.port)]
  /\ UNCHANGED <<mockStocks, now, reply, sub, client>>

\* server.listen(`0.0.0.0:${config.port}`) is called; its promise is pending.
Listen ==
  /\ server.pc = "registered"
  /\ server' = [server EXCEPT !.pc = "listening",
                              !.address = "0.0.0.0:" \o Decimal(server.port)]
  /\ UNCHANGED <<mockStocks, now, reply, sub, client>>

ListenResolves ==
  /\ server.pc = "listening"
  /\ server' = [server EXCEPT !.pc = "bound"]
  /\ UNCHANGED <<mockStocks, now, reply, sub, client>>

\* The catch of Effect.tryPromise: the effect fails with
\* Error(`Failed to start server: ${error}`).
ListenRejects(reason) ==
  /\ server.pc = "listening"
  /\ server' = [server EXCEPT !.pc = "failed",
                              !.error = "Failed to start server: Error: " \o reason]
  /\ UNCHANGED <<mockStocks, now, reply, sub, client>>

\* The next Console.log.
LogLine ==
  /\ server.pc = "bound"
  /\ Len(server.log) < Len(StartupLines(server.port))
  /\ server' = [server EXCEPT !.log =
                  Append(@, StartupLines(server.port)[Len(server.log) + 1])]
  /\ UNCHANGED <<mockStocks, now, reply, sub, client>>

AwaitNeverReturns ==
  /\ server.pc = "bound"
  /\ Len(server.log) = Len(StartupLines(server.port))
  /\ server' = [server EXCEPT !.pc = "completed"]
  /\ UNCHANGED <<mockStocks, now, reply, sub, client>>

\* yield* Effect.never.
AwaitNever ==
  /\ server.pc = "bound"
  /\ Len(server.log) = Len(StartupLines(server.port))
  /\ server' = [server EXCEPT !.pc = "never"]
  /\ UNCHANGED <<mockStocks, now, reply, sub, client>>

\* The fiber is interrupted from outside (Effect.timeout in the tests) where
\* it is suspended: on the pending listen or on Effect.never.
Interrupt ==
  /\ server.pc \in {"listening", "never"}
  /\ server' = [server EXCEPT !.pc = "interrupted"]
  /\ UNCHANGED <<mockStocks, now, reply, sub, client>>

NextStartup ==
  \/ \E port \in Ports : CreateServer(port)
  \/ AddService
  \/ Listen
  \/ ListenResolves
  \/ \E reason \in ListenErrors : ListenRejects(reason)
  \/ LogLine
  \/ AwaitNever
  \/ Interrupt

SpecStartup == Init /\ [][NextStartup]_vars

(***************************************************************************)
(* runEffect on its own, as the tests call it: on successful effects and   *)
(* on effects failing with each kind of error value.                       *)
(***************************************************************************)
OtherErrors ==
  {[tag |-> "Object", unknown |-> "error"],
   [tag |-> "Object", symbol |-> "AAPL"],
   [tag |-> "Error", message |-> "Test error"]}

EffectInputs ==
  {Succeed(Quote(symbol, generatePrice(MockStocksTable[symbol].basePrice, tape[1]),
                 generateChange(tape[2]))) :
     symbol \in DOMAIN MockStocksTable, tape \in TapesOfLen(2)}
  \cup {Succeed(Null), Succeed([prices |-> <<>>])}
  \cup {Fail(StockNotFoundError(symbol)) : symbol \in InputSymbols \cup {""}}
  \cup {Fail(InvalidRequestError(message)) :
          message \in {"No symbol selected", "Test error", ""}}
  \cup {Fail(error) : error \in OtherErrors}

RunEffect(effect) ==
  /\ reply = NoReply
  /\ reply' = [op |-> "runEffect", effect |-> effect, result |-> runEffect(effect)]
  /\ UNCHANGED <<mockStocks, now, sub, server, client>>

NextRunEffect ==
  \/ /\ reply = NoReply
     /\ \E effect \in EffectInputs : RunEffect(effect)
  \/ Receive

SpecRunEffect == Init /\ [][NextRunEffect]_vars

\* Unary calls next to one subscription, on short inputs and the extreme
\* draws.
MixDraws == {0, DrawDen - 1}
MixTapes(n) == [1..n -> MixDraws]
MixSymbols == {"AAPL", "INVALID"}
MixBatches == {<<>>, <<"MSFT", "INVALID">>}

NextMix ==
  \/ /\ reply = NoReply
     /\ \E impl \in Impls, symbol \in MixSymbols, tape \in MixTapes(2) :
          GetStockPrice(impl, symbol, tape)
  \/ /\ reply = NoReply
     /\ \E impl \in BatchImpls, symbols \in MixBatches :
          \E tape \in MixTapes(DrawsTaken(symbols)) :
            GetMultipleStockPrices(impl, symbols, tape)
  \/ Receive
  \/ \E s \in FirstSub, kind \in StreamKinds, symbols \in PairInputs :
       Subscribe(s, kind, symbols)
  \/ \E s \in FirstSub : Pull(s)
  \/ \E s \in FirstSub, tape \in PairTapes : TimerFire(s, tape)
  \/ \E s \in FirstSub : Cancel(s)
  \/ \E s \in FirstSub, tape \in PairTapes : IntervalFire(s, tape)
  \/ \E s \in FirstSub : OnCancelled(s)
  \/ \E s \in FirstSub : OnError(s)
  \/ \E s \in FirstSub : Accept(s)

SpecMix == Init /\ [][NextMix]_vars

\* The Effect-based and the plain nice-grpc service side by side: unary
\* calls to either and one subscription to either, followed for
\* MaxPairTicks timer callbacks.
NextSame ==
  \/ /\ reply = NoReply
     /\ \E impl \in GeneratorKinds, symbol \in MixSymbols, tape \in MixTapes(2) :
          GetStockPrice(impl, symbol, tape)
  \/ /\ reply = NoReply
     /\ \E impl \in GeneratorKinds, symbols \in MixBatches :
          \E tape \in MixTapes(DrawsTaken(symbols)) :
            GetMultipleStockPrices(impl, symbols, tape)
  \/ Receive
  \/ \E s \in FirstSub, kind \in GeneratorKinds, symbols \in PairInputs :
       Subscribe(s, kind, symbols)
  \/ \E s \in FirstSub : Pull(s)
  \/ /\ PairTicksLeft
     /\ \E s \in FirstSub, tape \in PairTapes : TimerFire(s, tape)
  \/ \E s \in FirstSub : Cancel(s)

SpecSame == Init /\ [][NextSame]_vars

Next ==
  \/ NextSame
  \/ NextResolve \/ NextStream \/ NextPair \/ NextMix \/ NextRunEffect
  \/ NextStartup \/ NextHttpStream \/ NextClient \/ NextQuote

Spec == Init /\ [][Next]_vars

(***************************************************************************)
(* Properties of the unary calls.                                          *)
(***************************************************************************)
Known(symbol) == symbol \in DOMAIN mockStocks

IsBatchReply == reply.op = "getMultipleStockPrices"
IsQuoteReply == reply.op = "getStockPrice"

\* C1: getMultipleStockPrices succeeds for every input sequence, the empty
\* one included, with exactly one price per input symbol, and the price at
\* index i carries the symbol at index i of the input.
C1_BatchKeepsLengthAndOrder ==
  IsBatchReply =>
    /\ reply.result.ok
    /\ Len(reply.result.value.prices) = Len(reply.request.symbols)
    /\ \A i \in 1..Len(reply.request.symbols) :
         reply.result.value.prices[i].symbol = reply.request.symbols[i]

C1_Witness ==
  /\ IsBatchReply
  /\ reply.result.ok
  /\ Len(reply.request.symbols) >= 2
  /\ reply.request.symbols[1] = "INVALID"
  /\ reply.request.symbols[2] = "AAPL"
  /\ reply.result.value.prices[2].price > 0

\* C2: in a batch every unknown symbol yields the zero quote at its own
\* position, every known symbol yields a positive price, and the batch as a
\* whole does not fail.
C2_BatchDegradesPerItem ==
  IsBatchReply =>
    /\ reply.result.ok
    /\ \A i \in 1..Len(reply.request.symbols) :
         LET symbol == reply.request.symbols[i]
             quote == reply.result.value.prices[i]
         IN  IF Known(symbol)
               THEN quote.price > 0
               ELSE /\ quote.symbol = symbol
                    /\ quote.price = 0
                    /\ quote.change = 0
                    /\ quote.changePercent = 0

C2_Witness ==
  /\ IsBatchReply
  /\ reply.result.ok
  /\ \E i, j \in 1..Len(reply.request.symbols) :
       /\ ~Known(reply.request.symbols[i])
       /\ Known(reply.request.symbols[j])
       /\ reply.result.value.prices[i].price = 0
       /\ reply.result.value.prices[j].price > 0

\* C3: getStockPrice fails with "Stock symbol <symbol> not found" for every
\* symbol that is not in the registry and succeeds with a quote of the
\* requested symbol for every symbol that is.
C3_SingleFailsExactlyOnUnknown ==
  IsQuoteReply =>
    IF Known(reply.request.symbol)
      THEN /\ reply.result.ok
           /\ reply.result.value.symbol = reply.request.symbol
      ELSE /\ ~reply.result.ok
           /\ reply.result.error = "Stock symbol " \o reply.request.symbol \o " not found"

C3_Witness ==
  /\ IsQuoteReply
  /\ reply.impl = "effect"
  /\ reply.request.symbol = "INVALID"
  /\ ~reply.result.ok
  /\ reply.result.error = "Stock symbol INVALID not found"

\* C4: the price of a quote of a known symbol lies in
\* [basePrice * 0.95, basePrice * 1.05] and its changePercent in [-5, 5].
\* Prices are in hundredths and changePercent in tenths.
C4_QuoteWithinFivePercent ==
  (IsQuoteReply /\ reply.result.ok) =>
    LET basePrice == mockStocks[reply.request.symbol].basePrice
        quote == reply.result.value
    IN  /\ 95 * basePrice <= quote.price
        /\ quote.price <= 105 * basePrice
        /\ -50 <= quote.changePercent
        /\ quote.changePercent <= 50

\* The upper end of the price interval and the lower end of the
\* changePercent interval are reached in one quote.
C4_Witness ==
  /\ IsQuoteReply
  /\ reply.result.ok
  /\ reply.request.symbol = "AAPL"
  /\ reply.result.value.price = 18900
  /\ reply.result.value.changePercent = -50

(***************************************************************************)
(* Properties of the subscriptions.                                        *)
(***************************************************************************)
Range(q) == {q[i] : i \in DOMAIN q}

Live(s) == sub[s].kind # "none"

AllKnown(symbols) == symbols # <<>> /\ \A x \in Range(symbols) : Known(x)
NoneKnown(symbols) == \A x \in Range(symbols) : ~Known(x)

StoppedPcs == {"done", "cleared", "failed"}

\* C5: a subscription on known symbols has emitted at most one event per
\* tick, and its events carry a requested symbol, a positive price and a
\* volume in [0, 1000000).
C5_AtMostOneValidEventPerTick ==
  \A s \in SubIds :
    (Live(s) /\ AllKnown(sub[s].symbols)) =>
      /\ sub[s].emitted <= sub[s].ticks
      /\ sub[s].last # Null =>
           /\ sub[s].last.symbol \in Range(sub[s].symbols)
           /\ sub[s].last.price > 0
           /\ sub[s].last.volume >= 0
           /\ sub[s].last.volume < VolumeRange

C5_Witness ==
  \E s \in SubIds :
    /\ sub[s].symbols = <<"AAPL", "MSFT">>
    /\ sub[s].cancelled
    /\ sub[s].ticks >= 2
    /\ sub[s].emitted = sub[s].ticks
    /\ sub[s].last # Null
    /\ sub[s].last.symbol = "MSFT"
    /\ sub[s].last.volume = 0

\* C6: a subscription on no symbol, or on unknown symbols only, emits no
\* event, never fails, and ends only after a cancellation or error signal.
C6_NothingFromUnknownSymbols ==
  \A s \in SubIds :
    (Live(s) /\ NoneKnown(sub[s].symbols)) =>
      /\ sub[s].emitted = 0
      /\ sub[s].last = Null
      /\ sub[s].pc # "failed"
      /\ sub[s].pc \in StoppedPcs => sub[s].signals # <<>>

C6_Witness ==
  \E s \in SubIds :
    /\ sub[s].kind = "effect"
    /\ sub[s].symbols = <<>>
    /\ sub[s].ticks >= 2
    /\ sub[s].pc = "sleeping"
    /\ ~sub[s].cancelled
    /\ sub[s].emitted = 0

C8_CancelStopsTheLoop ==
  \A s \in SubIds :
    (sub[s].cancelled /\ sub[s].lateTicks >= 1) => sub[s].pc \in StoppedPcs

\* C9: a cancellation or error signal that reaches an already cancelled
\* subscription changes nothing but the record of the signals received.
C9_CancelIsIdempotent ==
  [][\A s \in SubIds :
       (sub[s].cancelled /\ sub'[s].signals # sub[s].signals) =>
         /\ [sub'[s] EXCEPT !.signals = sub[s].signals] = sub[s]
         /\ UNCHANGED <<mockStocks, now, reply>>]_vars

C9_Witness ==
  \E s \in SubIds :
    /\ sub[s].kind = "grpcjs"
    /\ sub[s].signals = <<"cancelled", "error">>
    /\ sub[s].emitted > 0
    /\ sub[s].pc = "cleared"

\* C10: a tick that finds an event the consumer has not yet taken does not
\* add to the backlog: the engine waits for the consumer or drops the tick.
C10_BacklogStaysBounded ==
  [][\A s \in SubIds :
       sub[s].backlog > 0 => sub'[s].backlog <= sub[s].backlog]_vars

\* C11: the consumer of a subscription observes the events in the order of
\* the ticks that made them: along what it has seen and what is still
\* written for it, the tick numbers grow strictly, so no event comes twice
\* or out of order, and the timestamps never fall.
C11_EventsInTickOrder ==
  \A s \in SubIds :
    LET stream == sub[s].seen \o sub[s].buffer
    IN  \A i, j \in 1..Len(stream) :
          i < j => /\ stream[i].tick < stream[j].tick
                   /\ stream[i].timestamp <= stream[j].timestamp

\* Two events observed with a tick between them that emitted nothing.
C11_Witness ==
  \E s \in SubIds :
    /\ sub[s].kind = "grpcjs"
    /\ Len(sub[s].seen) = 2
    /\ sub[s].seen[2].tick > sub[s].seen[1].tick + 1
    /\ sub[s].seen[2].timestamp > sub[s].seen[1].timestamp

ActivePcs == {"suspended", "sleeping", "armed"}

\* C12: an active subscription never fails and never ends by itself, for
\* every symbol list and every draw: a step that takes it out of the active
\* states happens only once the consumer or the call has signalled the end.
C12_OnlyCancellationEndsTheStream ==
  [][\A s \in SubIds :
       sub[s].pc \in ActivePcs =>
         /\ sub'[s].pc # "failed"
         /\ sub'[s].pc \notin ActivePcs => sub'[s].signals # <<>>]_vars

\* A mixed list run to the last tick, with ticks that emitted and ticks
\* that were skipped, still active and never signalled.
C12_Witness ==
  \E s \in SubIds :
    /\ sub[s].symbols = <<"AAPL", "INVALID">>
    /\ sub[s].ticks = MaxTicks
    /\ sub[s].emitted > 0
    /\ sub[s].emitted < sub[s].ticks
    /\ sub[s].pc \in ActivePcs
    /\ sub[s].signals = <<>>

\* The not-found signal of a transport: gRPC NOT_FOUND, or an HTTP 4xx.
NotFoundSignal(status) ==
  \/ status.protocol = "grpc" /\ status.code = "NOT_FOUND"
  \/ status.protocol = "http" /\ status.code >= 400 /\ status.code <= 499

\* C13: a single-quote call with an unknown symbol ends, on every transport
\* adapter, with the transport's not-found signal, and a batch call ends
\* without a transport error.
C13_UnknownSymbolIsNotFound ==
  /\ (IsQuoteReply /\ ~Known(reply.request.symbol)) => NotFoundSignal(reply.status)
  /\ IsBatchReply => reply.status.code = "OK"

\* C14: subscriptions are independent under every interleaving: a step
\* of one subscription (a tick, an event, a cancellation) leaves every other
\* subscription as it was, and an event of a subscription carries a symbol
\* of that subscription's own list.
C14_SubscriptionsAreIndependent ==
  [][\A s \in SubIds :
       sub'[s] # sub[s] =>
         /\ \A t \in SubIds \ {s} : sub'[t] = sub[t]
         /\ sub'[s].last # sub[s].last =>
              sub'[s].last.symbol \in Range(sub[s].symbols)]_vars

\* One grpc-js subscription cancelled and stopped after an event, another
\* on a different list still armed and with a later event.
C14_Witness ==
  /\ sub[1].kind = "grpcjs" /\ sub[2].kind = "grpcjs"
  /\ sub[1].symbols # sub[2].symbols
  /\ sub[1].cancelled /\ sub[1].pc = "cleared" /\ sub[1].emitted = 1
  /\ ~sub[2].cancelled /\ sub[2].pc = "armed" /\ sub[2].emitted = 1
  /\ sub[2].last.timestamp > sub[1].last.timestamp

Fresh(kind, symbols) ==
  [NoSub EXCEPT !.kind = kind, !.symbols = symbols,
                !.pc = IF kind = "grpcjs" THEN "armed" ELSE "suspended"]

C16_RegistryNeverChanges ==
  [][/\ mockStocks' = mockStocks
     /\ \A symbol \in InputSymbols : getStock(symbol)' = getStock(symbol)]_vars

\* After calls of every kind (a batch reply at hand, a subscription that
\* emitted and was cancelled) the registry is the table it was built from.
C16_Witness ==
  /\ IsBatchReply
  /\ \E s \in SubIds : sub[s].emitted > 0 /\ sub[s].pc \in {"done", "cleared"}
  /\ mockStocks = MockStocksTable
  /\ getStock("AAPL") = Succeed([name |-> "Apple Inc.", basePrice |-> 180])
  /\ ~getStock("INVALID").ok

\* k is a whole number at most one half away from n / d.
IsNearest(k, n, d) ==
  /\ k \in Int
  /\ 2 * (n - k * d) <= d
  /\ 2 * (k * d - n) <= d

\* A quote of a known symbol holds whole hundredths for price and change
\* and whole tenths for changePercent, each the rounding of a drawn value;
\* a quote of an unknown symbol holds zeros.
QuoteIsRounded(symbol, quote) ==
  IF Known(symbol)
    THEN \E r1, r2 \in Draws :
           /\ IsNearest(quote.price,
                        5 * generatePrice(mockStocks[symbol].basePrice, r1), DrawDen)
           /\ IsNearest(quote.change, 100 * generateChange(r2), DrawDen)
           /\ IsNearest(quote.changePercent, 10 * generateChange(r2), DrawDen)
    ELSE quote.price = 0 /\ quote.change = 0 /\ quote.changePercent = 0

\* C17: every quote of getStockPrice and getMultipleStockPrices carries a
\* price and a change that are multiples of 0.01 and a changePercent that
\* is a multiple of 0.1, and every streamed update a price that is a
\* multiple of 0.01: each field is the whole number of hundredths (tenths)
\* nearest to the value that was drawn.
C17_FieldsAreRounded ==
  /\ (IsQuoteReply /\ reply.result.ok) =>
       QuoteIsRounded(reply.request.symbol, reply.result.value)
  /\ IsBatchReply =>
       \A i \in 1..Len(reply.request.symbols) :
         QuoteIsRounded(reply.request.symbols[i], reply.result.value.prices[i])
  /\ \A s \in SubIds :
       sub[s].last # Null =>
         \E r \in Draws :
           IsNearest(sub[s].last.price,
                     5 * generatePrice(mockStocks[sub[s].last.symbol].basePrice, r),
                     DrawDen)

\* A batch quote and a streamed update whose drawn values were not whole
\* hundredths: 398.9962 became 399.00, 4.999 became 5.00 and 5.0, and
\* 188.9982 became 189.00.
C17_Witness ==
  /\ IsBatchReply
  /\ reply.request.symbols = <<"MSFT", "INVALID">>
  /\ reply.result.value.prices[1].price = 39900
  /\ reply.result.value.prices[1].change = 500
  /\ reply.result.value.prices[1].changePercent = 50
  /\ \E s \in SubIds : sub[s].last # Null /\ sub[s].last.price = 18900

\* C18: for every known symbol and every draw the price of getStockPrice
\* is strictly greater than basePrice * 0.95 and strictly less than
\* basePrice * 1.05 (for AAPL: above 171 and below 189).  Prices are in
\* hundredths.
C18_PriceStrictlyInsideFivePercent ==
  (IsQuoteReply /\ reply.result.ok) =>
    LET basePrice == mockStocks[reply.request.symbol].basePrice
    IN  /\ reply.result.value.price > 95 * basePrice
        /\ reply.result.value.price < 105 * basePrice

\* C19: every update of a subscription on known symbols has a symbol of
\* the requested list, a price above 0, a timestamp above 0 and a volume
\* strictly above 0.
C19_UpdateFieldsArePositive ==
  \A s \in SubIds :
    (AllKnown(sub[s].symbols) /\ sub[s].last # Null) =>
      /\ sub[s].last.symbol \in Range(sub[s].symbols)
      /\ sub[s].last.price > 0
      /\ sub[s].last.timestamp > 0
      /\ sub[s].last.volume > 0

\* What a call can answer: the outcome of its own request under some tape
\* of draws, the registry and the clock.
OwnResults(impl, op, request) ==
  IF op = "getStockPrice"
    THEN {GetStockPriceOutcome(impl, request, tape).result : tape \in TapesOfLen(2)}
    ELSE {GetMultipleOutcome(impl, request, tape).result :
            tape \in BatchTapesOfLen(DrawsTaken(request.symbols))}

C21_UnknownSelectionSkipsTheTick ==
  [][\A s \in SubIds :
       /\ (sub'[s].ticks = sub[s].ticks + 1 /\ sub'[s].emitted = sub[s].emitted) =>
            /\ sub'[s].pc = sub[s].pc
            /\ sub'[s].pc \in {"sleeping", "armed"}
            /\ sub'[s].last = sub[s].last
            /\ sub'[s].seen = sub[s].seen
            /\ sub'[s].buffer = sub[s].buffer
       /\ sub'[s].last # Null =>
            /\ sub'[s].last.symbol \in Range(sub'[s].symbols)
            /\ Known(sub'[s].last.symbol)]_vars

\* An Effect-based subscription on a mixed list whose latest tick selected
\* the unknown symbol after an earlier tick had emitted: it sleeps on the
\* next timer.
C21_Witness ==
  \E s \in SubIds :
    /\ sub[s].kind = "effect"
    /\ sub[s].symbols = <<"AAPL", "INVALID">>
    /\ sub[s].ticks >= 2
    /\ sub[s].emitted >= 1
    /\ sub[s].last.timestamp < now
    /\ sub[s].pc = "sleeping"
    /\ ~sub[s].cancelled

(***************************************************************************)
(* Properties of runEffect.                                                *)
(***************************************************************************)
IsRunEffectReply == reply.op = "runEffect"

\* C22: runEffect resolves with the value of a successful effect unchanged
\* and rejects with a plain Error for every failure: "Stock symbol s not
\* found" for a StockNotFoundError on s, its own message for an
\* InvalidRequestError, and "Unknown error" for every other failure value.
C22_RunEffectTranslatesFailures ==
  IsRunEffectReply =>
    LET effect == reply.effect
        result == reply.result
    IN  IF effect.ok
          THEN result.ok /\ result.value = effect.value
          ELSE /\ ~result.ok
               /\ effect.error \in {StockNotFoundError(symbol) : symbol \in InputSymbols \cup {""}}
                    => result.error = "Stock symbol " \o effect.error.symbol \o " not found"
               /\ effect.error \in {InvalidRequestError("No symbol selected"),
                                    InvalidRequestError("Test error"),
                                    InvalidRequestError("")}
                    => result.error = effect.error.message
               /\ effect.error \in OtherErrors => result.error = "Unknown error"

\* The failure value of the test "should handle unknown errors".
C22_Witness ==
  /\ IsRunEffectReply
  /\ reply.effect = Fail([tag |-> "Object", unknown |-> "error"])
  /\ reply.result = Fail("Unknown error")

(***************************************************************************)
(* Properties of the start-up.                                             *)
(***************************************************************************)
\* C23: the stock service is registered before the server listens, and it
\* listens on "0.0.0.0:<configured port>"; when listen fails the start-up
\* fails and the "listening on port" line is never logged; when listen
\* succeeds the line is logged first, and the effect then stays on
\* Effect.never until it is interrupted.
C23_StartupOrder ==
  /\ server.address # "none" =>
       /\ "StockService" \in server.services
       /\ server.address = "0.0.0.0:" \o Decimal(server.port)
  /\ server.pc = "failed" =>
       /\ server.log = <<>>
       /\ server.error # "none"
  /\ server.log # <<>> =>
       /\ server.pc \in {"bound", "never", "interrupted"}
       /\ server.log[1] = "gRPC Stock Price Server listening on port "
                            \o Decimal(server.port)
  /\ server.pc = "never" => server.log = StartupLines(server.port)
  /\ server.pc # "completed"

\* The configured port 50051, served and logged.
C23_Witness ==
  /\ server.pc = "never"
  /\ server.port = 50051
  /\ server.address = "0.0.0.0:50051"
  /\ server.services = {"StockService"}
  /\ server.log[1] = "gRPC Stock Price Server listening on port 50051"

(***************************************************************************)
(* Properties of the HTTP stream route.                                    *)
(***************************************************************************)
IsStreamReply == reply.op = "getStockStream"

\* C24: GET /api/stock/stream answers 400 "No symbols provided" and opens
\* no subscription when the symbols parameter is missing and when it is
\* present but empty; for every other request it opens exactly one
\* subscription on the comma-separated symbols.
C24_NoSymbolsIsRejected ==
  IsStreamReply =>
    LET got == ParamsGet(SearchParams(QueryOf(reply.url)), "symbols")
    IN  IF ~got.found \/ got.value = <<>>
          THEN /\ reply.status = HttpStatus(400)
               /\ reply.error = "No symbols provided"
               /\ reply.subscriptions = <<>>
          ELSE /\ reply.status = HttpStatus(200)
               /\ Len(reply.subscriptions) = 1
               /\ reply.subscriptions[1].symbols = RouteSymbols(reply.url)

(***************************************************************************)
(* Properties of the fetch client.                                         *)
(***************************************************************************)
\* The part of the text the client has read.
Received == SubSeq(client.text, 1, Len(client.text) - Len(client.pending))

\* The newline-terminated lines of a text: its pieces but the last.
TerminatedLines(text) ==
  LET pieces == Split(text, NL)
  IN  SubSeq(pieces, 1, Len(pieces) - 1)

\* C25: for every way the server's text is cut into chunks, the updates
\* emitted so far are the payloads of the newline-terminated "data: " lines
\* read so far (those whose payload parses), in arrival order and each
\* once; the unterminated rest is held in the buffer and nothing of it is
\* emitted.
C25_ChunkingDoesNotMatter ==
  client.pc # "idle" =>
    /\ client.emitted = UpdatesOf(TerminatedLines(Received))
    /\ (client.pc = "reading" /\ ~client.aborted) =>
         LET pieces == Split(Received, NL)
         IN  client.buffer = pieces[Len(pieces)]

\* The second of two lines is cut by a chunk boundary before its newline:
\* the first line has been emitted once, the cut one is held in the buffer.
C25_Witness ==
  /\ client.text = <<DataPrefix, "1", NL, DataPrefix, "2", NL>>
  /\ client.pending = <<NL>>
  /\ client.emitted = <<"1">>
  /\ client.buffer = <<DataPrefix, "2">>
  /\ client.pc = "reading"

\* The lines a read step completes, given the text it has consumed.
StepLines ==
  TerminatedLines(client.buffer \o
                  SubSeq(client.pending, 1, Len(client.pending) - Len(client'.pending)))

\* C26: a "data: " line whose payload does not parse is skipped: the read
\* step that completes it emits nothing for it, emits no failure and
\* leaves the loop reading, and every well-formed line the step completes,
\* before or after the bad one, is emitted.
C26_MalformedLineIsSkipped ==
  [][(client.pc = "reading" /\ Len(client'.pending) < Len(client.pending)) =>
       /\ client'.pc = "reading"
       /\ client'.failures = client.failures
       /\ client'.ends = client.ends
       /\ Len(client'.emitted) = Len(client.emitted) +
            Cardinality({k \in 1..Len(StepLines) :
                           StartsWithData(StepLines[k]) /\ Parses(Tail(StepLines[k]))})
       /\ SubSeq(client'.emitted, 1, Len(client.emitted)) = client.emitted]_vars

\* A line with an empty payload, then a good line, read to the end: only
\* the good one was emitted and nothing failed.
C26_Witness ==
  /\ client.text = <<DataPrefix, NL, DataPrefix, "2", NL>>
  /\ client.pending = <<>>
  /\ client.emitted = <<"2">>
  /\ client.failures = 0
  /\ client.pc = "reading"

\* C27: once the request is aborted no update and no failure is emitted;
\* a failure is emitted at most once and only by a step that ends the
\* loop; emit.end is called exactly once, when the read loop has stopped.
C27_AbortAndEnd ==
  [][/\ client.aborted =>
          /\ client'.emitted = client.emitted
          /\ client'.failures = client.failures
     /\ client'.failures # client.failures =>
          /\ client'.failures = 1
          /\ client.pc # "ended" /\ client'.pc = "ended"
     /\ client'.ends = (IF client'.pc = "ended" THEN 1 ELSE 0)]_vars

\* A stream aborted in the middle of the text, after an update: ended once,
\* without a failure.
C27_Witness ==
  /\ client.aborted
  /\ client.pc = "ended"
  /\ client.ends = 1
  /\ client.failures = 0
  /\ client.emitted = <<"1">>
  /\ client.pending # <<>>

(***************************************************************************)
(* Change and changePercent.                                               *)
(***************************************************************************)
\* The draws whose change, in hundredths, is within one half of c:
\* |1000 * r / DrawDen - 500 - c| <= 1/2, looked for around the draw that
\* gives c exactly.
DrawsRoundingTo(c) ==
  LET mid  == ((500 + c) * DrawDen) \div 1000
      span == DrawDen \div 1000 + 1
  IN  {r \in (mid - span)..(mid + span) :
         /\ r \in AllDraws
         /\ RoundChange(generateChange(r)) = c}

Abs(n) == IF n < 0 THEN -n ELSE n

\* C28: in every quote of a known symbol change (hundredths) and
\* changePercent (tenths) are the two roundings of one draw of
\* generateChange: they never have opposite signs, they are at most 0.05
\* apart, and one draw gives both, whatever the price is.
C28_ChangeAndPercentShareOneDraw ==
  (IsQuoteReply /\ reply.result.ok) =>
    LET quote == reply.result.value
    IN  /\ quote.change * quote.changePercent >= 0
        /\ Abs(quote.change - 10 * quote.changePercent) <= 5
        /\ \E r \in DrawsRoundingTo(quote.change) :
             quote.changePercent = RoundChangePercent(generateChange(r))

\* The lowest price of AAPL, 171.00, comes with a change of -0.05 and a
\* changePercent of 0: the change is not price minus base price, and the
\* two roundings are 0.05 apart.
C28_Witness ==
  /\ IsQuoteReply
  /\ reply.result.ok
  /\ reply.request.symbol = "AAPL"
  /\ reply.result.value.price = 17100
  /\ reply.result.value.change = -5
  /\ reply.result.value.changePercent = 0

(***************************************************************************)
(* The Effect-based and the plain nice-grpc service.                       *)
(***************************************************************************)
\* Requests both services are given: known, unknown and empty symbols,
\* lists of them, the empty list.
SameSymbols == InputSymbols \cup {""}
SameBatches ==
  {<<>>, <<"AAPL">>, <<"INVALID">>, <<"MSFT", "INVALID">>, <<"INVALID", "AAPL">>,
   <<"AAPL", "MSFT">>, <<"AAPL", "AAPL">>, <<"", "AAPL">>}
SameStreams == StreamInputs \cup {<<"">>, <<"", "MSFT">>}

\* C29: at the same clock value, for the same request and the same draws,
\* the Effect-based and the plain nice-grpc service give the same outcome:
\* the same quote or the same error message (and status) for
\* getStockPrice, the same prices for getMultipleStockPrices, and for a
\* tick of streamPriceUpdates the same event or the same skip.
C29_EffectAndPlainAgree ==
  /\ \A symbol \in SameSymbols, tape \in TapesOfLen(2) :
       GetStockPriceOutcome("effect", [symbol |-> symbol], tape) =
       GetStockPriceOutcome("plain", [symbol |-> symbol], tape)
  /\ \A symbols \in SameBatches :
       \A tape \in MixTapes(DrawsTaken(symbols)) :
         GetMultipleOutcome("effect", [symbols |-> symbols], tape) =
         GetMultipleOutcome("plain", [symbols |-> symbols], tape)
  /\ \A symbols \in SameStreams, tape \in MixTapes(3) :
       TickResult("effect", symbols, tape, now) = TickResult("plain", symbols, tape, now)

\* The Effect-based service has rejected a call for an unknown symbol with
\* the message of the plain one, and a subscription of the plain service
\* has yielded, on its second tick, the event the Effect-based one makes
\* from the same draws at that time.
C29_Witness ==
  /\ IsQuoteReply
  /\ reply.impl = "effect"
  /\ reply.result = PlainGetStockPriceResult([symbol |-> "INVALID"], <<0, 0>>)
  /\ sub[1].kind = "plain"
  /\ sub[1].ticks = 2
  /\ sub[1].last # Null
  /\ sub[1].last = updateEffect(sub[1].symbols, <<0, 0, 0>>, now).value

=============================================================================
